---- MODULE Spec2Model ----
(***************************************************************************)
(* Model of scripts/bintools/prelink_binary.py: the address-space          *)
(* compaction tool.  main() clears the output directory, reads the target  *)
(* binary's PT_LOAD mappings and interpreter, resolves the dependencies    *)
(* with ldd, and lets prelink_libs() choose a base address for every       *)
(* library (a bump-down cursor with collision skipping) and relocate a     *)
(* copy of it; finally the binary is patched with patchelf.  The helper    *)
(* ex() (a child command on two pipes) and run_fuzzers() of                *)
(* fuzzer-test-suite/run_experiments.py (a Pool of workers running         *)
(* CPU-pinned commands) are modelled on their own variables.               *)
(*                                                                         *)
(* Addresses are Python integers (unbounded, may become negative); Python's*)
(* % with a positive divisor is the floor modulus, as TLA+'s %.            *)
(***************************************************************************)
EXTENDS Integers, Sequences, FiniteSets, TLC

\* ---------------------------------------------------------------- bounds
MaxAddr == 5        \* --base-addr and the binary's p_vaddr range over 0..MaxAddr
MaxMemsz == 2       \* p_memsz of the binary's PT_LOAD segments: 0..MaxMemsz
MaxMaps == 2        \* number of PT_LOAD segments of the binary: 0..MaxMaps
MaxDeps == 2        \* number of lines of the ldd output: 0..MaxDeps
MaxSpan == 3        \* p_vaddr + p_memsz of a library's PT_LOAD segment: 1..MaxSpan
MaxAlignLog2 == 1   \* p_align of a library segment: 2^0 .. 2^MaxAlignLog2
MaxSegs == 2        \* program headers of an arbitrary library file: 0..MaxSegs
MaxVaddr == 1       \* p_vaddr of a PT_LOAD segment of an arbitrary library file
PipeCapacity == 2   \* bytes an OS pipe holds before a write blocks
MaxOutput == 3      \* bytes a child command writes to one of its pipes: 0..MaxOutput
MaxProcs == 2       \* run_fuzzers: num_processes ranges over 1..MaxProcs
MaxCmds == 5        \* run_fuzzers: len(cmds) ranges over 0..MaxCmds

\* ----------------------------------------------------------- data model
\* Python's None where a record is expected (a path, an exception), and where
\* a mapping tuple is expected (the result of get_overlap).
None == [none |-> TRUE]
NoMapping == <<>>

\* A file or command output that has not been read yet.  For a library,
\* Unread is a shared object as a linker lays it out (Images below).
Unread == [unread |-> TRUE]

\* A library file that has not been read yet and may hold any program
\* headers (AnyImages below).
Unchecked == [unread |-> TRUE, any |-> TRUE]

Min(a, b) == IF a < b THEN a ELSE b
Max(a, b) == IF a > b THEN a ELSE b

RECURSIVE Pow2(_)
Pow2(k) == IF k = 0 THEN 1 ELSE 2 * Pow2(k - 1)

SeqsUpTo(S, n) == UNION {[1..k -> S] : k \in 0..n}

\* Paths are (directory, file name) pairs: os.path.basename is the name.
InterpPath == [dir |-> "/lib64", name |-> "ld-linux.so"]
DepPath(k) == [dir |-> "/usr/lib", name |-> "lib" \o ToString(k) \o ".so"]
DepPaths == {DepPath(k) : k \in 1..MaxDeps}
\* The interpreter's file name in another directory, as ldd prints it where
\* the loader is reached through a second path.
LoaderAlias == [dir |-> "/usr/lib64", name |-> "ld-linux.so"]
LibPaths == DepPaths \cup {InterpPath, LoaderAlias}

basename(path) == path.name

\* The target binary as get_binary_info sees it: its PT_LOAD segments as
\* (p_vaddr, p_memsz) pairs in program-header order, and its PT_INTERP.
Mappings == (0..MaxAddr) \X (0..MaxMemsz)
Binaries == [maps : SeqsUpTo(Mappings, MaxMaps), interp : {InterpPath, None}]

\* The output of ldd: line i is about the i-th dependency, which ldd either
\* resolved to a path ("found") or reports as "not found".
LddLine(k) == {[res |-> r, path |-> DepPath(k)] : r \in {"found", "missing"}}
LddOutputs ==
    {[lines |-> s] : s \in
        {t \in SeqsUpTo(UNION {LddLine(k) : k \in 1..MaxDeps}, MaxDeps) :
            \A i \in 1..Len(t) : t[i] \in LddLine(i)}}

\* The ldd outputs in which a line may also resolve to LoaderAlias.
AliasLine(k) == LddLine(k) \cup {[res |-> "found", path |-> LoaderAlias]}
AliasOutputs ==
    {[lines |-> s] : s \in
        {t \in SeqsUpTo(UNION {AliasLine(k) : k \in 1..MaxDeps}, MaxDeps) :
            \A i \in 1..Len(t) : t[i] \in AliasLine(i)}}

\* A library file: the sequence of its program headers.
Segment(t, v, m, a) == [p_type |-> t, p_vaddr |-> v, p_memsz |-> m, p_align |-> a]
Images ==
    {[segs |-> <<Segment("PT_LOAD", 0, m, Pow2(a))>>] :
        m \in 1..MaxSpan, a \in 0..MaxAlignLog2}

\* Any program header table pyelftools can iterate: PT_LOAD segments with
\* any p_vaddr, in any order, with p_align 0 (which ELF allows, like 1, for
\* "no alignment"), and segments of another type.
LoadSegments ==
    {Segment("PT_LOAD", v, m, a) :
        v \in 0..MaxVaddr, m \in 1..(MaxSpan - MaxVaddr),
        a \in {0} \cup {Pow2(k) : k \in 0..MaxAlignLog2}}
OtherSegments == {Segment("PT_DYNAMIC", 0, 1, 1)}
AnyImages ==
    {[segs |-> s] : s \in SeqsUpTo(LoadSegments \cup OtherSegments, MaxSegs)}

\* ---------------------------------------------------------------- state
VARIABLES
    pc,               \* position in main() / prelink_libs()
    base_addr,        \* args.base_addr, already int(.., 16)
    binary,           \* the target binary file (Unread until get_binary_info)
    lddout,           \* what ldd prints for the binary (Unread until run)
    files,            \* library path -> program headers (Unread until opened)
    outdir,           \* files in the output directory
    interp,           \* main: interp
    binary_mappings,  \* main: binary_mappings / prelink_libs: existing_mappings
    deps,             \* main: the list get_library_deps returned
    libs,             \* main: the set libs; here the part not yet iterated
    lib,              \* prelink_libs: loop variable
    align,            \* prelink_libs: align
    size,             \* prelink_libs: size
    baseaddr,         \* prelink_libs: baseaddr (the cursor)
    overlap,          \* prelink_libs: overlap
    relocs,           \* the prelink commands issued so far, in order
    in_place,         \* args.in_place (Unread until used)
    set_rpath,        \* args.set_rpath (Unread until used)
    bak,              \* contents of '<binary>.bak', or None
    target,           \* patch state of the original binary file
    copy,             \* patch state of the binary's copy in outdir, or None
    err,              \* the exception that ended the run, or None
    prev,             \* relocs and err of the previous run of the tool, or None
    proc,             \* ex: the parent's position, the child and its two pipes
    pool              \* run_fuzzers: the task queue and the workers of the Pool

vars == <<pc, base_addr, binary, lddout, files, outdir, interp, binary_mappings,
          deps, libs, lib, align, size, baseaddr, overlap, relocs, in_place,
          set_rpath, bak, target, copy, err, prev, proc, pool>>

\* ------------------------------------------------------ pure functions
\* Mutant of Overlaps: the third test (the mapping lies inside the region)
\* is left out.
OverlapsWithoutContainment(start, sz, m) ==
    LET end     == start + sz
        m_start == m[1]
        m_end   == m[1] + m[2]
    IN  \/ (start >= m_start /\ start < m_end)
        \/ (end > m_start /\ end <= m_end)

\* get_overlap's test of (start, size) against one mapping m.
Overlaps(start, sz, m) ==
    LET end     == start + sz
        m_start == m[1]
        m_end   == m[1] + m[2]
    IN  \/ (start >= m_start /\ start < m_end)
        \/ (end > m_start /\ end <= m_end)
        \/ (start <= m_start /\ end >= m_end)

\* other_mappings[::-1]
RECURSIVE Reversed(_)
Reversed(s) == IF s = <<>> THEN <<>> ELSE Append(Reversed(Tail(s)), Head(s))

\* The for loop of get_overlap over an already reversed list.
RECURSIVE FirstOverlap(_, _, _)
FirstOverlap(start, sz, ms) ==
    IF ms = <<>> THEN NoMapping
    ELSE IF Overlaps(start, sz, Head(ms)) THEN Head(ms)
    ELSE FirstOverlap(start, sz, Tail(ms))

get_overlap(mapping, other_mappings) ==
    FirstOverlap(mapping[1], mapping[2], Reversed(other_mappings))

\* The loop of prelink_libs over a library's segments: (align, size) after
\* the segments segs, starting from (align, size).
RECURSIVE ScanSegments(_, _, _)
ScanSegments(segs, a, s) ==
    IF segs = <<>> THEN <<a, s>>
    ELSE LET seg == Head(segs) IN
         IF seg.p_type # "PT_LOAD" THEN ScanSegments(Tail(segs), a, s)
         ELSE ScanSegments(Tail(segs),
                           IF seg.p_align > a THEN seg.p_align ELSE a,
                           seg.p_vaddr + seg.p_memsz)

LibAlign(segs) == ScanSegments(segs, 0, 0)[1]
LibSize(segs) == ScanSegments(segs, 0, 0)[2]

\* Mutant of Descend: the cursor is not lowered by the library's size.
DescendNot(addr, sz) == addr

\* Mutant of Descend: the cursor is raised by the library's size.
Ascend(addr, sz) == addr + sz

\* baseaddr -= size
Descend(addr, sz) == addr - sz

\* Mutant of AlignDown: the cursor is not rounded.
AlignNot(addr, al) == addr

\* if baseaddr % align: baseaddr -= baseaddr % align   (align > 0)
AlignDown(addr, al) == IF addr % al # 0 THEN addr - (addr % al) ELSE addr

\* Mutant of JumpBelow: the cursor jumps to the end of the mapping.
JumpAbove(m, sz) == m[1] + m[2]

\* baseaddr = overlap[0] - size
JumpBelow(m, sz) == m[1] - sz

\* Mutant of InvalidBase: the test is off by one.
InvalidBaseOffByOne(addr) == addr < -1

\* if baseaddr < 0: raise
InvalidBase(addr) == addr < 0

\* Mutant of FirstMissing: "not found" lines are skipped.
FirstMissingIgnored(lines) == None

\* get_library_deps' scan of the ldd output: the first "not found" line
\* raises, a resolved line appends its path.
RECURSIVE FirstMissing(_)
FirstMissing(lines) ==
    IF lines = <<>> THEN None
    ELSE IF Head(lines).res = "missing" THEN Head(lines).path
    ELSE FirstMissing(Tail(lines))

RECURSIVE FoundPaths(_)
FoundPaths(lines) ==
    IF lines = <<>> THEN <<>>
    ELSE IF Head(lines).res = "found"
         THEN <<Head(lines).path>> \o FoundPaths(Tail(lines))
         ELSE FoundPaths(Tail(lines))

Range(s) == {s[i] : i \in 1..Len(s)}

\* shutil.copy(lib, os.path.join(outdir, basename)): replaces a file of that name.
CopyInto(dir, path) ==
    {f \in dir : f.name # basename(path)}
        \cup {[name |-> basename(path), src |-> path, prelinked |-> FALSE, base |-> 0]}

\* Mutant of Prelinked: the copy is left as it was copied.
PrelinkSkipped(dir, path, base) == dir

\* prelink -r base newlib, when it succeeds.
Prelinked(dir, path, base) ==
    {f \in dir : f.name # basename(path)}
        \cup {[name |-> basename(path), src |-> path, prelinked |-> TRUE, base |-> base]}

Exception(kind, what) == [kind |-> kind, what |-> what]

\* What an earlier run or the user may have left in the output directory.
Stale ==
    {[name |-> n, src |-> None, prelinked |-> TRUE, base |-> 0] :
        n \in {"lib1.so", "core"}}

\* Mutant of Cleared: the directory is kept as it is.
NotCleared(dir) == dir

\* if os.path.isdir(outdir): shutil.rmtree(outdir); os.mkdir(outdir)
Cleared(dir) == {}

\* Mutant of InPlace: the binary itself is always the one patched.
InPlaceAlways(a) == TRUE

\* if args.in_place
InPlace(a) == a.flag

\* Mutant of Backup: no backup is written.
BackupNone(prog) == None

\* shutil.copy(args.binary, '%s.bak' % args.binary)
Backup(prog) == prog

\* ----------------------------------------------------------------- Init
\* The ldd output is not read yet, and the libraries are shared objects as
\* a linker lays them out.
Regular ==
    /\ lddout = Unread
    /\ files = [p \in LibPaths |-> Unread]

\* Before main runs: nothing read, nothing written.
Fresh ==
    /\ pc = "main"
    /\ outdir \in SUBSET Stale
    /\ interp = None
    /\ binary_mappings = <<>>
    /\ deps = <<>>
    /\ libs = {}
    /\ lib = None
    /\ align = 0
    /\ size = 0
    /\ baseaddr = 0
    /\ overlap = NoMapping
    /\ relocs = <<>>
    /\ in_place = Unread
    /\ set_rpath = Unread
    /\ bak = None
    /\ target = [interp |-> None, rpath |-> FALSE, patched |-> FALSE]
    /\ copy = None
    /\ err = None
    /\ prev = None
    /\ proc = [parent |-> "call", child |-> "none", out_left |-> 0, err_left |-> 0,
               out_buf |-> 0, err_buf |-> 0, returncode |-> 0, result |-> None]
    /\ pool = [state |-> "call", n |-> 0, queue |-> <<>>, running |-> <<>>]

Init ==
    /\ base_addr \in 0..MaxAddr
    /\ binary = Unread
    /\ Regular
    /\ Fresh


\* -------------------------------------------------------------- actions
\* What a file holds: drawn when it is first read, fixed from then on.
Read(file, contents) == IF file = Unread THEN contents ELSE {file}

\* What ELFFile(f) finds in a library file.
Contents(file) == IF file = Unchecked THEN AnyImages ELSE Read(file, Images)

\* Mutant of Raise: the exception is recorded and the run goes on.
RaiseAndGoOn(e) ==
    /\ pc' = pc
    /\ err' = e

\* raise Exception(..): nothing of main or prelink_libs catches it.
Raise(e) ==
    /\ pc' = "error"
    /\ err' = e

\* main, lines 174-186: the output directory is removed and recreated, then
\* get_binary_info finds no PT_INTERP segment and raises.
MainNoInterp ==
    /\ pc = "main"
    /\ \E b \in Read(binary, Binaries) :
        /\ b.interp = None
        /\ binary' = b
    /\ outdir' = Cleared(outdir)
    /\ Raise(Exception("NoInterp", None))
    /\ UNCHANGED <<base_addr, lddout, files, interp, binary_mappings, deps, libs,
                   lib, align, size, baseaddr, overlap, relocs, in_place, set_rpath, bak,
                   target, copy, prev>>
    /\ UNCHANGED <<proc, pool>>

\* main, lines 174-190: ... get_library_deps: the ldd command fails (ex raises).
MainLddFails ==
    /\ pc = "main"
    /\ \E b \in Read(binary, Binaries) :
        /\ b.interp # None
        /\ binary' = b
        /\ interp' = b.interp
        /\ binary_mappings' = b.maps
        /\ target' = [target EXCEPT !.interp = b.interp]
    /\ outdir' = Cleared(outdir)
    /\ Raise(Exception("CommandFailed", [dir |-> "cmd", name |-> "ldd"]))
    /\ UNCHANGED <<base_addr, lddout, files, deps, libs, lib, align, size,
                   baseaddr, overlap, relocs, in_place, set_rpath, bak, copy, prev>>
    /\ UNCHANGED <<proc, pool>>

\* main, lines 174-190: ... get_library_deps: a line of the ldd output says
\* "not found"; the exception names the library.
MainMissingLib ==
    /\ pc = "main"
    /\ \E b \in Read(binary, Binaries), l \in Read(lddout, LddOutputs) :
        /\ b.interp # None
        /\ FirstMissing(l.lines) # None
        /\ binary' = b
        /\ lddout' = l
        /\ interp' = b.interp
        /\ binary_mappings' = b.maps
        /\ target' = [target EXCEPT !.interp = b.interp]
        /\ Raise(Exception("MissingLibrary", FirstMissing(l.lines)))
    /\ outdir' = Cleared(outdir)
    /\ UNCHANGED <<base_addr, files, deps, libs, lib, align, size, baseaddr,
                   overlap, relocs, in_place, set_rpath, bak, copy, prev>>
    /\ UNCHANGED <<proc, pool>>

\* main, lines 174-194: the output directory is cleared, the binary is read,
\* the dependencies are resolved, libs = set(deps) + {interp}, and
\* prelink_libs is entered with baseaddr = int(args.base_addr, 16).
MainOk ==
    /\ pc = "main"
    /\ \E b \in Read(binary, Binaries), l \in Read(lddout, LddOutputs) :
        /\ b.interp # None
        /\ FirstMissing(l.lines) = None
        /\ binary' = b
        /\ lddout' = l
        /\ interp' = b.interp
        /\ binary_mappings' = b.maps
        /\ target' = [target EXCEPT !.interp = b.interp]
        /\ deps' = FoundPaths(l.lines)
        /\ libs' = Range(FoundPaths(l.lines)) \cup {b.interp}
    /\ outdir' = Cleared(outdir)
    /\ baseaddr' = base_addr
    /\ pc' = "for"
    /\ UNCHANGED <<base_addr, files, lib, align, size, overlap, relocs, in_place, set_rpath,
                   bak, copy, err, prev>>
    /\ UNCHANGED <<proc, pool>>

\* prelink_libs, lines 134-147: the for loop takes the next library (a set
\* is iterated in no particular order), reads its PT_LOAD segments and
\* lowers the cursor by its size.
OpenLib ==
    /\ pc = "for"
    /\ \E l \in libs : \E f \in Contents(files[l]) :
        /\ lib' = l
        /\ libs' = libs \ {l}
        /\ files' = [files EXCEPT ![l] = f]
        /\ align' = LibAlign(f.segs)
        /\ size' = LibSize(f.segs)
        /\ baseaddr' = Descend(baseaddr, LibSize(f.segs))
    /\ pc' = "align"
    /\ UNCHANGED <<base_addr, binary, lddout, outdir, interp, binary_mappings,
                   deps, overlap, relocs, in_place, set_rpath, bak, target, copy, err, prev>>
    /\ UNCHANGED <<proc, pool>>

\* prelink_libs, lines 152-154: the head of the while loop; baseaddr % align
\* raises ZeroDivisionError when align is 0 (Python's message, "integer
\* division or modulo by zero", names no library).
AlignStep ==
    /\ pc = "align"
    /\ IF align = 0
       THEN /\ Raise(Exception("ZeroDivisionError", None))
            /\ UNCHANGED baseaddr
       ELSE /\ baseaddr' = AlignDown(baseaddr, align)
            /\ pc' = "overlap"
            /\ UNCHANGED err
    /\ UNCHANGED <<base_addr, binary, lddout, files, outdir, interp,
                   binary_mappings, deps, libs, lib, align, size, overlap,
                   relocs, in_place, set_rpath, bak, target, copy, prev>>
    /\ UNCHANGED <<proc, pool>>

\* prelink_libs, lines 155-159: the collision check; on a collision the
\* cursor jumps below the reported mapping and the loop restarts.
OverlapStep ==
    /\ pc = "overlap"
    /\ overlap' = get_overlap(<<baseaddr, size>>, binary_mappings)
    /\ IF overlap' # NoMapping
       THEN /\ baseaddr' = JumpBelow(overlap', size)
            /\ pc' = "align"
       ELSE /\ pc' = "place"
            /\ UNCHANGED baseaddr
    /\ UNCHANGED <<base_addr, binary, lddout, files, outdir, interp,
                   binary_mappings, deps, libs, lib, align, size, relocs, in_place, set_rpath,
                   bak, target, copy, err, prev>>
    /\ UNCHANGED <<proc, pool>>

\* prelink_libs, lines 161-163: a negative base address raises, naming the
\* library.
PlaceInvalid ==
    /\ pc = "place"
    /\ InvalidBase(baseaddr)
    /\ Raise(Exception("InvalidBaseAddress", lib))
    /\ UNCHANGED <<base_addr, binary, lddout, files, outdir, interp,
                   binary_mappings, deps, libs, lib, align, size, baseaddr,
                   overlap, relocs, in_place, set_rpath, bak, target, copy, prev>>
    /\ UNCHANGED <<proc, pool>>

Reloc == [lib |-> lib, base |-> baseaddr, size |-> size, align |-> align]

\* prelink_libs, lines 165-170: the library is copied into the output
\* directory and the copy is relocated with prelink -r baseaddr.
PlaceOk ==
    /\ pc = "place"
    /\ ~InvalidBase(baseaddr)
    /\ relocs' = Append(relocs, Reloc)
    /\ outdir' = Prelinked(CopyInto(outdir, lib), lib, baseaddr)
    /\ pc' = "for"
    /\ UNCHANGED <<base_addr, binary, lddout, files, interp, binary_mappings,
                   deps, libs, lib, align, size, baseaddr, overlap, in_place, set_rpath, bak,
                   target, copy, err, prev>>
    /\ UNCHANGED <<proc, pool>>

\* prelink_libs, lines 165-170: ... the prelink command fails (ex raises);
\* the unrelocated copy stays in the output directory.
PlaceFails ==
    /\ pc = "place"
    /\ ~InvalidBase(baseaddr)
    /\ relocs' = Append(relocs, Reloc)
    /\ outdir' = CopyInto(outdir, lib)
    /\ Raise(Exception("CommandFailed", [dir |-> "cmd", name |-> "prelink"]))
    /\ UNCHANGED <<base_addr, binary, lddout, files, interp, binary_mappings,
                   deps, libs, lib, align, size, baseaddr, overlap, in_place, set_rpath, bak,
                   target, copy, prev>>
    /\ UNCHANGED <<proc, pool>>

Flags == {[flag |-> b] : b \in BOOLEAN}

\* Mutant of Exhausted: the loop is left at any iteration.
ExhaustedAlways(S) == TRUE

\* for lib in libs: the loop ends when every element has been taken.
Exhausted(S) == S = {}

\* Mutant of NewInterp: the interpreter path is left as it was.
OldInterp == interp

\* os.path.realpath(os.path.join(outdir, os.path.basename(interp)))
NewInterp == [dir |-> "outdir", name |-> basename(interp)]

\* The program patchelf works on once the flag in_place is known: the
\* original binary (after a backup) or a fresh copy in the output directory.
BinaryCopy == [interp |-> target.interp, rpath |-> target.rpath, patched |-> FALSE]

\* main, lines 196-205, after prelink_libs returned: back up or copy the
\* binary, then patchelf --set-interpreter on it.
PatchInterp ==
    /\ pc = "for"
    /\ Exhausted(libs)
    /\ \E a \in Read(in_place, Flags) :
        /\ in_place' = a
        /\ IF InPlace(a)
           THEN /\ bak' = Backup(target)
                /\ target' = [target EXCEPT !.interp = NewInterp, !.patched = TRUE]
                /\ UNCHANGED copy
           ELSE /\ copy' = [BinaryCopy EXCEPT !.interp = NewInterp, !.patched = TRUE]
                /\ UNCHANGED <<bak, target>>
    /\ pc' = "rpath"
    /\ UNCHANGED <<base_addr, binary, lddout, files, outdir, interp,
                   binary_mappings, deps, libs, lib, align, size, baseaddr,
                   overlap, relocs, set_rpath, err, prev>>
    /\ UNCHANGED <<proc, pool>>

\* main, lines 196-205: ... the patchelf command fails (ex raises).
PatchInterpFails ==
    /\ pc = "for"
    /\ Exhausted(libs)
    /\ \E a \in Read(in_place, Flags) :
        /\ in_place' = a
        /\ IF InPlace(a)
           THEN /\ bak' = Backup(target)
                /\ UNCHANGED copy
           ELSE /\ copy' = BinaryCopy
                /\ UNCHANGED bak
    /\ Raise(Exception("CommandFailed", [dir |-> "cmd", name |-> "patchelf"]))
    /\ UNCHANGED <<base_addr, binary, lddout, files, outdir, interp,
                   binary_mappings, deps, libs, lib, align, size, baseaddr,
                   overlap, relocs, set_rpath, target, prev>>
    /\ UNCHANGED <<proc, pool>>

\* main, lines 207-210: with --set-rpath, patchelf --set-rpath on the same
\* program; then main returns.
SetRpath ==
    /\ pc = "rpath"
    /\ \E r \in Read(set_rpath, Flags) :
        /\ set_rpath' = r
        /\ IF ~r.flag THEN UNCHANGED <<target, copy>>
           ELSE IF InPlace(in_place)
           THEN /\ target' = [target EXCEPT !.rpath = TRUE]
                /\ UNCHANGED copy
           ELSE /\ copy' = [copy EXCEPT !.rpath = TRUE]
                /\ UNCHANGED target
    /\ pc' = "done"
    /\ UNCHANGED <<base_addr, binary, lddout, files, outdir, interp,
                   binary_mappings, deps, libs, lib, align, size, baseaddr,
                   overlap, relocs, in_place, bak, err, prev>>
    /\ UNCHANGED <<proc, pool>>

\* main, lines 207-210: ... the patchelf --set-rpath command fails.
SetRpathFails ==
    /\ pc = "rpath"
    /\ \E r \in Read(set_rpath, Flags) :
        /\ r.flag
        /\ set_rpath' = r
    /\ Raise(Exception("CommandFailed", [dir |-> "cmd", name |-> "patchelf"]))
    /\ UNCHANGED <<base_addr, binary, lddout, files, outdir, interp,
                   binary_mappings, deps, libs, lib, align, size, baseaddr,
                   overlap, relocs, in_place, bak, target, copy, prev>>
    /\ UNCHANGED <<proc, pool>>

\* ------------------------------------------------------- specifications
Next ==
    \/ MainNoInterp
    \/ MainLddFails
    \/ MainMissingLib
    \/ MainOk
    \/ OpenLib
    \/ AlignStep
    \/ OverlapStep
    \/ PlaceInvalid
    \/ PlaceOk
    \/ PlaceFails
    \/ PatchInterp
    \/ PatchInterpFails
    \/ SetRpath
    \/ SetRpathFails

Spec == Init /\ [][Next]_vars

\* The runs on a target with at most one PT_LOAD mapping.
InitFair ==
    /\ base_addr \in 0..MaxAddr
    /\ binary \in {b \in Binaries : Len(b.maps) <= 1}
    /\ Regular
    /\ Fresh

\* The interpreter runs main to its end or to an exception: no step that is
\* possible is postponed forever.
FairSpec == InitFair /\ [][Next]_vars /\ WF_vars(Next)

\* The tool is run a second time on identical inputs (main, lines 173-210,
\* from the top): the binary, the libraries, the ldd output and the
\* arguments are those of the first run, the locals start afresh.
Rerun ==
    /\ pc \in {"done", "error"}
    /\ prev = None
    /\ prev' = [relocs |-> relocs, err |-> err]
    /\ pc' = "main"
    /\ interp' = None
    /\ binary_mappings' = <<>>
    /\ deps' = <<>>
    /\ libs' = {}
    /\ lib' = None
    /\ align' = 0
    /\ size' = 0
    /\ baseaddr' = 0
    /\ overlap' = NoMapping
    /\ relocs' = <<>>
    /\ err' = None
    /\ bak' = None
    /\ target' = [interp |-> None, rpath |-> FALSE, patched |-> FALSE]
    /\ copy' = None
    /\ UNCHANGED <<base_addr, binary, lddout, files, outdir, in_place,
                   set_rpath>>
    /\ UNCHANGED <<proc, pool>>

\* Two runs with the highest start address, on a target with at most one
\* PT_LOAD mapping.
InitTwice ==
    /\ base_addr = MaxAddr
    /\ binary \in {b \in Binaries : Len(b.maps) <= 1}
    /\ Regular
    /\ Fresh

NextTwice == Next \/ Rerun

SpecTwice == InitTwice /\ [][NextTwice]_vars

\* The runs with the highest start address on library files of any shape:
\* a target with at most one PT_LOAD mapping, of one byte, and at most one
\* dependency.
InitImages ==
    /\ base_addr = MaxAddr
    /\ binary \in {b \in Binaries :
                     Len(b.maps) <= 1 /\ \A i \in 1..Len(b.maps) : b.maps[i][2] = 1}
    /\ lddout \in {l \in LddOutputs : Len(l.lines) <= 1}
    /\ files = [p \in LibPaths |-> Unchecked]
    /\ Fresh

SpecImages == InitImages /\ [][Next]_vars

\* The libraries the for loop of prelink_libs has taken so far, in order.
Processed ==
    [i \in 1..Len(relocs) |-> relocs[i].lib]
        \o (IF pc \in {"align", "overlap", "place"}
               \/ (pc = "error" /\ err \in {Exception("InvalidBaseAddress", lib),
                                            Exception("ZeroDivisionError", None)})
            THEN <<lib>> ELSE <<>>)

\* The lists with the elements of s in any order.
Permuted(s) ==
    {[i \in 1..Len(s) |-> s[f[i]]] : f \in Permutations(1..Len(s))}

\* The tool is run a second time on a binary whose PT_LOAD segments are
\* listed in another order; everything else is as in the first run.
RerunPermuted ==
    /\ pc \in {"done", "error"}
    /\ prev = None
    /\ prev' = [relocs |-> relocs, err |-> err, order |-> Processed]
    /\ \E m \in Permuted(binary.maps) : binary' = [binary EXCEPT !.maps = m]
    /\ pc' = "main"
    /\ interp' = None
    /\ binary_mappings' = <<>>
    /\ deps' = <<>>
    /\ libs' = {}
    /\ lib' = None
    /\ align' = 0
    /\ size' = 0
    /\ baseaddr' = 0
    /\ overlap' = NoMapping
    /\ relocs' = <<>>
    /\ err' = None
    /\ bak' = None
    /\ target' = [interp |-> None, rpath |-> FALSE, patched |-> FALSE]
    /\ copy' = None
    /\ UNCHANGED <<base_addr, lddout, files, outdir, in_place, set_rpath>>
    /\ UNCHANGED <<proc, pool>>

\* The second run iterates the set libs in the order of the first run, as
\* far as both went.
SameSequence ==
    prev # None =>
        \A i \in 1..Len(Processed) :
            i <= Len(prev.order) => Processed[i] = prev.order[i]

\* Two runs with the highest start address on a target with two PT_LOAD
\* mappings and at most one dependency.
InitPerm ==
    /\ base_addr = MaxAddr
    /\ binary \in {b \in Binaries : Len(b.maps) = MaxMaps}
    /\ lddout \in {l \in LddOutputs : Len(l.lines) <= 1}
    /\ files = [p \in LibPaths |-> Unread]
    /\ Fresh

NextPerm == Next \/ RerunPermuted

SpecPerm == InitPerm /\ [][NextPerm]_vars

FairSpecPerm == SpecPerm /\ WF_vars(NextPerm)

\* The runs with the highest start address in which ldd may resolve a
\* dependency to a file with the interpreter's name in another directory.
InitNames ==
    /\ base_addr = MaxAddr
    /\ binary \in {b \in Binaries :
                     Len(b.maps) <= 1 /\ \A i \in 1..Len(b.maps) : b.maps[i][2] = 1}
    /\ lddout \in AliasOutputs
    /\ files = [p \in LibPaths |-> Unread]
    /\ Fresh

SpecNames == InitNames /\ [][Next]_vars

\* ------------------------------------------------------------------- ex
\* The variables of main and prelink_libs.
mainvars == <<pc, base_addr, binary, lddout, files, outdir, interp,
              binary_mappings, deps, libs, lib, align, size, baseaddr, overlap,
              relocs, in_place, set_rpath, bak, target, copy, err, prev>>

\* ex, lines 47-48: the child is started with both stdout and stderr on
\* pipes; what it will write and its exit code are the child's business.
\* The parent goes into p.wait().
Popen ==
    /\ proc.parent = "call"
    /\ \E o \in 0..MaxOutput, e \in 0..MaxOutput, rc \in 0..1 :
        proc' = [parent |-> "wait", child |-> "running", out_left |-> o,
                 err_left |-> e, out_buf |-> 0, err_buf |-> 0,
                 returncode |-> rc, result |-> None]
    /\ UNCHANGED <<mainvars, pool>>

\* The child writes a byte to stdout; the write blocks while the pipe is
\* full (nobody reads it before the child has exited).
ChildWriteOut ==
    /\ proc.child = "running"
    /\ proc.out_left > 0
    /\ proc.out_buf < PipeCapacity
    /\ proc' = [proc EXCEPT !.out_left = @ - 1, !.out_buf = @ + 1]
    /\ UNCHANGED <<mainvars, pool>>

\* The child writes a byte to stderr.
ChildWriteErr ==
    /\ proc.child = "running"
    /\ proc.err_left > 0
    /\ proc.err_buf < PipeCapacity
    /\ proc' = [proc EXCEPT !.err_left = @ - 1, !.err_buf = @ + 1]
    /\ UNCHANGED <<mainvars, pool>>

\* The child has written everything and exits.
ChildExit ==
    /\ proc.child = "running"
    /\ proc.out_left = 0
    /\ proc.err_left = 0
    /\ proc' = [proc EXCEPT !.child = "exited"]
    /\ UNCHANGED <<mainvars, pool>>

\* ex, lines 49-55: p.wait() returns once the child has exited; with exit
\* code 0 the parent reads stdout to its end and returns it.
WaitReturns ==
    /\ proc.parent = "wait"
    /\ proc.child = "exited"
    /\ proc.returncode = 0
    /\ proc' = [proc EXCEPT !.parent = "returned", !.result = [bytes |-> proc.out_buf],
                            !.out_buf = 0]
    /\ UNCHANGED <<mainvars, pool>>

\* ex, lines 49-54: ... with another exit code the parent prints both pipes
\* and raises.
WaitRaises ==
    /\ proc.parent = "wait"
    /\ proc.child = "exited"
    /\ proc.returncode # 0
    /\ proc' = [proc EXCEPT !.parent = "raised", !.out_buf = 0, !.err_buf = 0]
    /\ UNCHANGED <<mainvars, pool>>

\* One call of ex (or of run_fuzzers), from a state in which main has not
\* started and the output directory is empty.
InitEx ==
    /\ base_addr = 0
    /\ binary = Unread
    /\ Regular
    /\ Fresh
    /\ outdir = {}

NextEx ==
    \/ Popen
    \/ ChildWriteOut
    \/ ChildWriteErr
    \/ ChildExit
    \/ WaitReturns
    \/ WaitRaises

SpecEx == InitEx /\ [][NextEx]_vars

\* ---------------------------------------------------------- run_fuzzers
\* zip(cycle(range(num_processes)), cmds): the i-th command (from 0) with
\* CPU i % num_processes.
Task(i, n) == [cpu |-> i % n, cmd |-> i]

\* The chunk size Pool.starmap_async chooses for len tasks and n workers.
Chunksize(len, n) ==
    IF len = 0 THEN 0
    ELSE (len \div (n * 4)) + (IF len % (n * 4) # 0 THEN 1 ELSE 0)

\* The k-th batch of at most c consecutive tasks.
Chunk(k, c, len, n) ==
    [j \in 1..(Min(k * c, len) - (k - 1) * c) |-> Task((k - 1) * c + j - 1, n)]

\* The task batches in the order they are queued.
Chunks(len, n) ==
    LET c == Chunksize(len, n) IN
    IF len = 0 THEN <<>>
    ELSE [k \in 1..((len + c - 1) \div c) |-> Chunk(k, c, len, n)]

\* run_fuzzers, lines 158-161: the Pool is created with num_processes
\* workers and starmap_async queues the commands with their CPUs.
StartPool ==
    /\ pool.state = "call"
    /\ \E n \in 1..MaxProcs, len \in 0..MaxCmds :
        pool' = [state |-> "running", n |-> n, queue |-> Chunks(len, n),
                 running |-> [w \in 1..n |-> <<>>]]
    /\ UNCHANGED <<mainvars, proc>>

\* An idle worker takes the next batch from the queue and calls run_cmd on
\* its first task.
WorkerTakes ==
    /\ pool.state = "running"
    /\ pool.queue # <<>>
    /\ \E w \in 1..pool.n :
        /\ pool.running[w] = <<>>
        /\ pool' = [pool EXCEPT !.running[w] = Head(pool.queue),
                                !.queue = Tail(pool.queue)]
    /\ UNCHANGED <<mainvars, proc>>

\* run_cmd returns (the fuzzer ended with exit code 0): the worker goes on
\* with the next task of its batch.
RunCmdReturns ==
    /\ pool.state = "running"
    /\ \E w \in 1..pool.n :
        /\ pool.running[w] # <<>>
        /\ pool' = [pool EXCEPT !.running[w] = Tail(pool.running[w])]
    /\ UNCHANGED <<mainvars, proc>>

\* run_cmd raises (CalledProcessError): the rest of the worker's batch is
\* given up.
RunCmdRaises ==
    /\ pool.state = "running"
    /\ \E w \in 1..pool.n :
        /\ pool.running[w] # <<>>
        /\ pool' = [pool EXCEPT !.running[w] = <<>>]
    /\ UNCHANGED <<mainvars, proc>>

\* run_fuzzers, lines 161-174: .get() returns or raises when every batch is
\* done; the pool is closed and joined.
PoolJoin ==
    /\ pool.state = "running"
    /\ pool.queue = <<>>
    /\ \A w \in 1..pool.n : pool.running[w] = <<>>
    /\ pool' = [pool EXCEPT !.state = "joined"]
    /\ UNCHANGED <<mainvars, proc>>

NextPool ==
    \/ StartPool
    \/ WorkerTakes
    \/ RunCmdReturns
    \/ RunCmdRaises
    \/ PoolJoin

SpecPool == InitEx /\ [][NextPool]_vars

\* ----------------------------------------------------------- properties
Terminated == pc \in {"done", "error"}

PatchelfFailed == Exception("CommandFailed", [dir |-> "cmd", name |-> "patchelf"])

\* prelink_libs has returned normally: every library of libs was placed.
PrelinkReturned ==
    \/ pc = "for" /\ libs = {}
    \/ pc \in {"rpath", "done"}
    \/ pc = "error" /\ err = PatchelfFailed

\* The half-open intervals [a[1], a[1]+a[2]) and [b[1], b[1]+b[2]) share a point.
Intersect(a, b) == Max(a[1], b[1]) < Min(a[1] + a[2], b[1] + b[2])

Region(r) == <<r.base, r.size>>

\* Where the first library's search starts: base_addr - size, rounded down.
FirstTentative(r) == AlignDown(Descend(base_addr, r.size), r.align)

\* C1: after a successful run of prelink_libs, the region [base, base+size)
\* of no relocated library intersects the region of an existing mapping of
\* the target binary.
C1_NoOverlapWithExisting ==
    PrelinkReturned =>
        \A i \in 1..Len(relocs), j \in 1..Len(binary_mappings) :
            ~Intersect(Region(relocs[i]), binary_mappings[j])

\* A finished run whose first library collided with a mapping and was
\* placed below it.
C1_Witness ==
    /\ pc = "done"
    /\ Len(relocs) >= 2
    /\ \E j \in 1..Len(binary_mappings) :
        /\ Intersect(<<FirstTentative(relocs[1]), relocs[1].size>>, binary_mappings[j])
        /\ relocs[1].base + relocs[1].size <= binary_mappings[j][1]

\* C2: after a successful run of prelink_libs, the regions of any two
\* distinct relocated libraries are disjoint.
C2_LibrariesDisjoint ==
    PrelinkReturned =>
        \A i, j \in 1..Len(relocs) :
            i # j => ~Intersect(Region(relocs[i]), Region(relocs[j]))

\* A finished run with three libraries (a pair that is not consecutive) and
\* an existing mapping lying between two of them.
C2_Witness ==
    /\ pc = "done"
    /\ Len(relocs) = 3
    /\ \E j \in 1..Len(binary_mappings) :
        /\ binary_mappings[j][2] > 0
        /\ binary_mappings[j][1] + binary_mappings[j][2] <= relocs[1].base
        /\ relocs[3].base + relocs[3].size <= binary_mappings[j][1]

\* C3: every base address passed to the relocation step is a multiple of the
\* library's alignment.
C3_BaseAligned ==
    \A i \in 1..Len(relocs) :
        relocs[i].align > 0 /\ relocs[i].base % relocs[i].align = 0

\* A library of alignment 2 whose first tentative region collided with a
\* mapping m, for which m.base - size is odd, and which was relocated at the
\* even address below.
C3_Witness ==
    /\ Len(relocs) >= 1
    /\ relocs[1].align = 2
    /\ \E j \in 1..Len(binary_mappings) :
        /\ Intersect(<<FirstTentative(relocs[1]), relocs[1].size>>, binary_mappings[j])
        /\ JumpBelow(binary_mappings[j], relocs[1].size) % 2 = 1
        /\ relocs[1].base = JumpBelow(binary_mappings[j], relocs[1].size) - 1

\* C4: no library is relocated at a negative base address, and a slot search
\* that ends below 0 raises the error naming the library without copying or
\* relocating anything.
C4_NegativeBaseRejected ==
    /\ [](\A i \in 1..Len(relocs) : relocs[i].base >= 0)
    /\ [][(pc = "place" /\ baseaddr < 0) =>
            /\ pc' = "error"
            /\ err' = Exception("InvalidBaseAddress", lib)
            /\ relocs' = relocs
            /\ outdir' = outdir]_vars

\* The run ended on a negative base address for a library, after another
\* library had been relocated.
C4_Witness ==
    /\ pc = "error"
    /\ err = Exception("InvalidBaseAddress", lib)
    /\ baseaddr < 0
    /\ Len(relocs) >= 1

\* All libraries of the run, once main has built the set.
AllLibs == Range(deps) \cup {interp}

RECURSIVE SpanSum(_)
SpanSum(S) ==
    IF S = {} THEN 0
    ELSE LET l == CHOOSE x \in S : TRUE
         IN  LibSize(files[l].segs) + SpanSum(S \ {l})

InvalidBaseRaised == pc = "error" /\ err = Exception("InvalidBaseAddress", lib)

\* C5: if the start address is smaller than the sum of the sizes of all
\* libraries, the run ends in the invalid-base-address failure.  Stated from
\* the moment the last library has been opened (all sizes are known, and
\* only its slot search is left): from there the failure is reached.
C5_ExhaustionBoundary ==
    (pc = "align" /\ libs = {} /\ base_addr < SpanSum(AllLibs)) ~> InvalidBaseRaised

RelocatedCopy(r) ==
    [name |-> basename(r.lib), src |-> r.lib, prelinked |-> TRUE, base |-> r.base]

C7_ResolverOrder ==
    \A i \in 1..Len(relocs) : relocs[i].lib = (deps \o <<interp>>)[i]

Bases(rs) == {<<rs[i].lib, rs[i].base>> : i \in 1..Len(rs)}

CommandFailed(e) == e # None /\ e.kind = "CommandFailed"

\* C8: a second run on identical inputs, in which as in the first no external
\* command fails, ends in the same failure as the first or, when both
\* succeed, with the same base address for every library.
C8_SameResult ==
    (Terminated /\ prev # None /\ ~CommandFailed(err) /\ ~CommandFailed(prev.err)) =>
        /\ err = prev.err
        /\ err = None => Bases(relocs) = Bases(prev.relocs)

C10_Terminates == <>Terminated

\* The library being processed has a PT_LOAD segment.
HasLoad(segs) == \E i \in 1..Len(segs) : segs[i].p_type = "PT_LOAD"

\* The highest p_vaddr + p_memsz over the PT_LOAD segments.
RECURSIVE HighestEnd(_)
HighestEnd(segs) ==
    IF segs = <<>> THEN 0
    ELSE LET seg == Head(segs) IN
         IF seg.p_type # "PT_LOAD" THEN HighestEnd(Tail(segs))
         ELSE Max(seg.p_vaddr + seg.p_memsz, HighestEnd(Tail(segs)))

ZeroDivision == Exception("ZeroDivisionError", None)

\* C13: a run that ends on a library without PT_LOAD segments ends in a
\* malformed-image error naming that library.
C13_MalformedImage ==
    (pc = "error" /\ lib # None /\ ~HasLoad(files[lib].segs)) =>
        err = Exception("MalformedImage", lib)

\* C14: a library whose PT_LOAD segments all have p_align 0 is handled like
\* one of alignment 1: the run does not end on it with a division by zero.
C14_ZeroAlignAsOne ==
    (pc = "error" /\ lib # None /\ HasLoad(files[lib].segs) /\ align = 0) =>
        err # ZeroDivision

\* C15: the size used for the library being placed is the highest
\* p_vaddr + p_memsz over its PT_LOAD segments, in whatever order the file
\* lists them.
C15_SpanIsHighestEnd ==
    (pc \in {"align", "overlap", "place"} /\ lib # None) =>
        size = HighestEnd(files[lib].segs)

\* patchelf has been invoked on the binary (successfully or not).
PatchInvoked ==
    \/ pc \in {"rpath", "done"}
    \/ pc = "error" /\ err = PatchelfFailed

\* The binary or its copy carries a patch.
Patched ==
    \/ target.patched
    \/ target.rpath
    \/ copy # None /\ (copy.patched \/ copy.rpath)

\* C11: patchelf is invoked only when every library of the set has been
\* relocated into the output directory, and once it has been invoked no
\* library is copied or relocated any more.
C11_PatchAfterRelocations ==
    /\ [](Patched => PatchInvoked)
    /\ [](PatchInvoked =>
            /\ libs = {}
            /\ \A l \in AllLibs : \E i \in 1..Len(relocs) :
                    relocs[i].lib = l /\ RelocatedCopy(relocs[i]) \in outdir)
    /\ [][PatchInvoked => (relocs' = relocs /\ outdir' = outdir)]_vars

\* An in-place run with three libraries that set the interpreter and then
\* the rpath.
C11_Witness ==
    /\ pc = "done"
    /\ Len(relocs) = 3
    /\ target.patched
    /\ target.rpath

\* C12: when the ldd output has a "not found" line, main ends with the error
\* naming the first such library, before prelink_libs: no library is opened,
\* no base address is computed, nothing is copied or relocated and the
\* binary is neither backed up, copied nor patched.
C12_UnresolvedAborts ==
    (lddout # Unread /\ pc # "main"
        /\ \E i \in 1..Len(lddout.lines) : lddout.lines[i].res = "missing") =>
        LET i == CHOOSE k \in 1..Len(lddout.lines) :
                    /\ lddout.lines[k].res = "missing"
                    /\ \A j \in 1..(k - 1) : lddout.lines[j].res = "found"
        IN  /\ pc = "error"
            /\ err = Exception("MissingLibrary", lddout.lines[i].path)
            /\ lib = None
            /\ relocs = <<>>
            /\ outdir = {}
            /\ ~Patched
            /\ copy = None
            /\ bak = None

\* The run ended on the second dependency missing, the first one resolved.
C12_Witness ==
    /\ pc = "error"
    /\ err = Exception("MissingLibrary", DepPath(2))
    /\ Len(lddout.lines) = 2
    /\ lddout.lines[1].res = "found"

Earlier == 1..(Len(relocs) - 1)

\* C20: when an external command fails the run ends with that error and
\* takes no further step; the libraries relocated before are still in the
\* output directory, the remaining ones are neither copied nor relocated,
\* and no later patch is applied.
C20_NoRollback ==
    /\ [](CommandFailed(err) =>
            /\ pc = "error"
            /\ \A l \in libs : \A f \in outdir : f.src # l
            /\ ~target.rpath
            /\ copy # None => ~copy.rpath
            /\ err.what.name = "ldd" => (relocs = <<>> /\ outdir = {} /\ ~Patched)
            /\ err.what.name = "prelink" =>
                /\ \A i \in Earlier : RelocatedCopy(relocs[i]) \in outdir
                /\ Cardinality(outdir) = Len(relocs)
                /\ ~Patched /\ copy = None /\ bak = None
            /\ err.what.name = "patchelf" =>
                /\ \A i \in 1..Len(relocs) : RelocatedCopy(relocs[i]) \in outdir
                /\ set_rpath = Unread => ~Patched)
    /\ [][pc = "error" => FALSE]_vars

\* The prelink command failed on the second library: the first is relocated
\* in the output directory and a third was still to come.
C20_Witness ==
    /\ pc = "error"
    /\ err = Exception("CommandFailed", [dir |-> "cmd", name |-> "prelink"])
    /\ Len(relocs) = 2
    /\ RelocatedCopy(relocs[1]) \in outdir
    /\ libs # {}

\* The half-open interval predicate: [start, start+sz) and [m[1], m[1]+m[2]).
HalfOpen(start, sz, m) == start < m[1] + m[2] /\ m[1] < start + sz

\* C17: for the tentative region and every existing mapping that the slot
\* search hands to get_overlap, the test of get_overlap says "overlap"
\* exactly when the half-open interval predicate does.
C17_OverlapIsHalfOpen ==
    pc = "overlap" =>
        \A j \in 1..Len(binary_mappings) :
            Overlaps(baseaddr, size, binary_mappings[j])
                <=> HalfOpen(baseaddr, size, binary_mappings[j])

\* The tentative region ends at the mapping's base or starts at its end.
Touches(start, sz, m) == start + sz = m[1] \/ start = m[1] + m[2]

\* C18: an existing mapping that the tentative region only touches at a
\* boundary is not the one get_overlap reports.
C18_TouchingIsNoOverlap ==
    pc = "overlap" =>
        \A j \in 1..Len(binary_mappings) :
            Touches(baseaddr, size, binary_mappings[j]) =>
                get_overlap(<<baseaddr, size>>, binary_mappings) # binary_mappings[j]

\* C19 (results): a second run on the same mappings listed in another order,
\* with the same library sequence and no failing command in either run, ends
\* in the same failure as the first or with the same base addresses.
C19_SameBases ==
    (Terminated /\ prev # None /\ SameSequence
        /\ ~CommandFailed(err) /\ ~CommandFailed(prev.err)) =>
        /\ err = prev.err
        /\ err = None => Bases(relocs) = Bases(prev.relocs)

\* C19 (termination): when the first run came to an end without a failing
\* command, the second run, on the permuted mappings and with the library
\* sequence of the first, comes to an end too (with a result to compare).
C19_PermutedRunEnds ==
    (prev # None /\ ~CommandFailed(prev.err)) ~> (Terminated \/ ~SameSequence)

\* C21: whenever get_overlap reports a mapping for the tentative region, the
\* cursor the jump produces is strictly below the cursor before the jump.
C21_StrictProgress ==
    pc = "overlap" =>
        LET m == get_overlap(<<baseaddr, size>>, binary_mappings) IN
        m # NoMapping => JumpBelow(m, size) < baseaddr

\* C22: no step of prelink_libs raises the cursor, and the search for a
\* library starts at or below the previous library's base minus its size.
C22_CursorNeverIncreases ==
    [][/\ pc \in {"for", "align", "overlap", "place"} => baseaddr' <= baseaddr
       /\ (pc = "for" /\ pc' = "align" /\ relocs # <<>>) =>
            baseaddr' <= relocs[Len(relocs)].base - size']_vars

\* The search for the second library went through a collision jump and
\* stands below the first library's base minus the size.
C22_Witness ==
    /\ pc = "align"
    /\ Len(relocs) = 1
    /\ overlap # NoMapping
    /\ baseaddr < relocs[1].base - size

\* The indices of the mappings that get_overlap's test accepts.
Hits(start, sz, ms) == {j \in 1..Len(ms) : Overlaps(start, sz, ms[j])}

\* C23 (order): get_overlap returns None when its test accepts no mapping
\* of the list, and otherwise the accepted mapping that comes last in the
\* list; the list is not modified.
C23_LastInList ==
    [][pc = "overlap" =>
        LET H == Hits(baseaddr, size, binary_mappings) IN
        /\ binary_mappings' = binary_mappings
        /\ H = {} => overlap' = NoMapping
        /\ H # {} => overlap' = binary_mappings[CHOOSE j \in H : \A k \in H : k <= j]]_vars

\* C23: get_overlap returns None exactly when no mapping of the list
\* overlaps the region (as half-open intervals), and otherwise a mapping
\* that overlaps it.
C23_NoneIffNoOverlap ==
    pc = "overlap" =>
        LET m == get_overlap(<<baseaddr, size>>, binary_mappings) IN
        /\ m = NoMapping <=>
            \A j \in 1..Len(binary_mappings) :
                ~HalfOpen(baseaddr, size, binary_mappings[j])
        /\ m # NoMapping => HalfOpen(baseaddr, size, m)

\* Address b is aligned for the library of r and its region is free.
Feasible(b, r) ==
    /\ b % r.align = 0
    /\ \A j \in 1..Len(binary_mappings) : ~HalfOpen(b, r.size, binary_mappings[j])

\* The cursor the i-th library's search started from.
Start(i) == IF i = 1 THEN base_addr ELSE relocs[i - 1].base

\* C24: the base of every library is the greatest feasible address at or
\* below the previous cursor minus its size; without existing mappings it
\* is that address rounded down to the alignment.
C24_HighestFeasible ==
    \A i \in 1..Len(relocs) :
        LET r   == relocs[i]
            top == Start(i) - r.size
        IN  /\ r.base <= top
            /\ Feasible(r.base, r)
            /\ \A b \in (r.base + 1)..top : ~Feasible(b, r)
            /\ binary_mappings = <<>> => r.base = (top \div r.align) * r.align

\* The binary file as it was before the run.
Original == [interp |-> binary.interp, rpath |-> FALSE, patched |-> FALSE]

\* C25: without --in-place (and as long as the flag has not been looked at)
\* the binary file is as it was: not patched, no backup written; only the
\* copy in the output directory is patched.
C25_OriginalUntouched ==
    (in_place = Unread \/ ~in_place.flag) =>
        /\ ~target.patched
        /\ ~target.rpath
        /\ binary # Unread => target = Original
        /\ bak = None
        /\ in_place = Unread => copy = None

\* A finished run without --in-place that set the interpreter and the rpath
\* of the copy.
C25_Witness ==
    /\ pc = "done"
    /\ ~in_place.flag
    /\ copy.patched
    /\ copy.rpath
    /\ Len(relocs) >= 2

\* C26: whenever the binary carries a patch, '<binary>.bak' holds the
\* unmodified original; a backup exists only once prelink_libs has returned
\* with every library relocated, and a run that failed before leaves neither
\* a backup nor a modified binary.
C26_BackupBeforePatch ==
    /\ (target.patched \/ target.rpath) => bak = Original
    /\ bak # None =>
        /\ bak = Original
        /\ in_place.flag
        /\ PrelinkReturned
        /\ AllLibs = {relocs[i].lib : i \in 1..Len(relocs)}
    /\ (pc = "error" /\ err # PatchelfFailed) => (bak = None /\ target = Original)

\* An in-place run whose set-rpath command failed after the interpreter had
\* been set: the backup holds the original.
C26_Witness ==
    /\ pc = "error"
    /\ err = PatchelfFailed
    /\ set_rpath # Unread
    /\ target.patched
    /\ bak # None
    /\ Len(relocs) >= 2

\* C27: once main has passed its first lines, every file of the output
\* directory was put there by this run: the relocated copy of a library of
\* this run (or the copy whose prelink command just failed); after a
\* successful run the directory holds exactly the relocated copies.
C27_ClearedOutdir ==
    /\ pc # "main" =>
        \A f \in outdir : \E i \in 1..Len(relocs) :
            \/ f = RelocatedCopy(relocs[i])
            \/ /\ i = Len(relocs)
               /\ err = Exception("CommandFailed", [dir |-> "cmd", name |-> "prelink"])
               /\ f = [RelocatedCopy(relocs[i]) EXCEPT !.prelinked = FALSE, !.base = 0]
    /\ pc = "done" => outdir = {RelocatedCopy(relocs[i]) : i \in 1..Len(relocs)}

\* A second run has removed the relocated copies the first run left and has
\* not placed a library yet.
C27_Witness ==
    /\ prev # None
    /\ Len(prev.relocs) >= 2
    /\ pc = "for"
    /\ relocs = <<>>
    /\ outdir = {}

\* C28: after a successful run every library of the set has its own
\* relocated copy in the output directory: as many files as libraries, none
\* replaced by the copy of another library.
C28_OneCopyPerLibrary ==
    pc = "done" =>
        /\ Cardinality(outdir) = Cardinality(AllLibs)
        /\ \A l \in AllLibs : \E i \in 1..Len(relocs) :
            relocs[i].lib = l /\ RelocatedCopy(relocs[i]) \in outdir

\* The child still has output to write and every pipe it has output for is
\* full, while the parent waits for it to exit.
Stuck ==
    /\ proc.parent = "wait"
    /\ proc.child = "running"
    /\ proc.out_left > 0 \/ proc.err_left > 0
    /\ proc.out_left > 0 => proc.out_buf = PipeCapacity
    /\ proc.err_left > 0 => proc.err_buf = PipeCapacity

\* C29: ex never gets stuck, whatever the child writes before it exits:
\* while the parent waits the child can go on (or has exited), and ex ends
\* by returning all of the child's stdout or by raising.
C29_ExFinishes ==
    /\ ~Stuck
    /\ proc.parent = "returned" => proc.returncode = 0
    /\ proc.parent = "raised" => proc.returncode # 0

\* The workers that are inside run_cmd.
Busy == {w \in DOMAIN pool.running : pool.running[w] # <<>>}

\* C30: no two run_cmd calls that are running at the same time have the same
\* cpu.
C30_DistinctCpus ==
    \A v, w \in Busy :
        v # w => Head(pool.running[v]).cpu # Head(pool.running[w]).cpu

====
